---- MODULE Spec2Model ----
(***************************************************************************)
(* Model of the conversation ledger (MongoDbStoreConversation /            *)
(* MongoDbGetConversation nodes) and of the intent classifier              *)
(* (AiParseQuery node).                                                    *)
(*                                                                         *)
(* Strings are TLA+ strings; Len, \o and SubSeq are the only primitives    *)
(* used on them, every JavaScript string method is built from those.       *)
(***************************************************************************)
EXTENDS Integers, Sequences, FiniteSets, TLC

(***************************************************************************)
(* Bounds of the model.                                                    *)
(***************************************************************************)
\* number of upsertTurn / getConversation invocations explored
MaxCalls == 3

(***************************************************************************)
(* JavaScript string primitives.                                           *)
(***************************************************************************)
CharAt(s, i) == SubSeq(s, i, i)

IsWhitespaceChar(c) == c \in {" ", "\t", "\n"}

RECURSIVE TrimStart(_)
TrimStart(s) ==
    IF Len(s) = 0 THEN s
    ELSE IF IsWhitespaceChar(CharAt(s, 1)) THEN TrimStart(SubSeq(s, 2, Len(s)))
    ELSE s

RECURSIVE TrimEnd(_)
TrimEnd(s) ==
    IF Len(s) = 0 THEN s
    ELSE IF IsWhitespaceChar(CharAt(s, Len(s))) THEN TrimEnd(SubSeq(s, 1, Len(s) - 1))
    ELSE s

\* String.prototype.trim
Trim(s) == TrimEnd(TrimStart(s))

LowerChar(c) ==
    CASE c = "A" -> "a" [] c = "B" -> "b" [] c = "C" -> "c" [] c = "D" -> "d"
      [] c = "E" -> "e" [] c = "F" -> "f" [] c = "G" -> "g" [] c = "H" -> "h"
      [] c = "I" -> "i" [] c = "J" -> "j" [] c = "K" -> "k" [] c = "L" -> "l"
      [] c = "M" -> "m" [] c = "N" -> "n" [] c = "O" -> "o" [] c = "P" -> "p"
      [] c = "Q" -> "q" [] c = "R" -> "r" [] c = "S" -> "s" [] c = "T" -> "t"
      [] c = "U" -> "u" [] c = "V" -> "v" [] c = "W" -> "w" [] c = "X" -> "x"
      [] c = "Y" -> "y" [] c = "Z" -> "z" [] OTHER -> c

\* String.prototype.toLowerCase
RECURSIVE ToLowerCase(_)
ToLowerCase(s) ==
    IF Len(s) = 0 THEN s
    ELSE LowerChar(CharAt(s, 1)) \o ToLowerCase(SubSeq(s, 2, Len(s)))

\* String.prototype.startsWith / endsWith / includes
StartsWith(s, k) == Len(k) <= Len(s) /\ SubSeq(s, 1, Len(k)) = k
EndsWith(s, k) == Len(k) <= Len(s) /\ SubSeq(s, Len(s) - Len(k) + 1, Len(s)) = k
Includes(s, k) == \E i \in 1..(Len(s) - Len(k) + 1) : SubSeq(s, i, i + Len(k) - 1) = k

(***************************************************************************)
(* Conversation ledger.                                                    *)
(***************************************************************************)
Procs == {"p1", "p2"}

\* values of the clientId node parameter
ClientIds == {"", " ", "null", "undefined", "client-123", "client-456"}

(***************************************************************************)
(* JavaScript values: undefined, null, strings, numbers and objects are    *)
(* kept apart by the field that carries them.                              *)
(***************************************************************************)
Undef == [undef |-> TRUE]
Null == [null |-> TRUE]
Str(s) == [str |-> s]
Num(n) == [num |-> n]
Obj(fields) == [obj |-> fields]

IsUndef(v) == "undef" \in DOMAIN v
IsNull(v) == "null" \in DOMAIN v
IsStr(v) == "str" \in DOMAIN v
IsNum(v) == "num" \in DOMAIN v
IsObj(v) == "obj" \in DOMAIN v

\* ToBoolean
Truthy(v) ==
    CASE IsUndef(v) -> FALSE
      [] IsNull(v) -> FALSE
      [] IsStr(v) -> v.str # ""
      [] IsNum(v) -> v.num # 0
      [] OTHER -> TRUE

\* a || b
JsOr(a, b) == IF Truthy(a) THEN a ELSE b

\* v.f: undefined for an absent property, a TypeError on null and undefined
PropertyThrows(v) == IsUndef(v) \/ IsNull(v)
Property(v, f) == IF IsObj(v) /\ f \in DOMAIN v.obj THEN v.obj[f] ELSE Undef

\* JSON.parse on the texts the model feeds it; every other text makes it throw
JsonTexts ==
    {"{\"total\":2}", "{\"match_all\":{}}", "{}", "null", "42",
     "{\"queryType\":\"general\"}", "{\"queryType\":\"nvr\"}", "{\"queryType\":\"variphi\"}",
     "{\"queryType\":\"events\",\"dateRangeType\":\"today\",\"status\":\"LABELLED\",\"size\":20}",
     "{\"queryType\":\"weather\"}", "{\"dateRangeType\":\"yesterday\",\"size\":\"abc\"}"}
JsonParses(s) == s \in JsonTexts
JsonParse(s) ==
    CASE s = "{\"total\":2}" -> Obj([total |-> Num(2)])
      [] s = "{\"match_all\":{}}" -> Obj([match_all |-> Obj(<<>>)])
      [] s = "{}" -> Obj(<<>>)
      [] s = "null" -> Null
      [] s = "42" -> Num(42)
      [] s = "{\"queryType\":\"general\"}" -> Obj([queryType |-> Str("general")])
      [] s = "{\"queryType\":\"nvr\"}" -> Obj([queryType |-> Str("nvr")])
      [] s = "{\"queryType\":\"variphi\"}" -> Obj([queryType |-> Str("variphi")])
      [] s = "{\"queryType\":\"events\",\"dateRangeType\":\"today\",\"status\":\"LABELLED\",\"size\":20}" ->
            Obj([queryType |-> Str("events"), dateRangeType |-> Str("today"),
                 status |-> Str("LABELLED"), size |-> Num(20)])
      [] s = "{\"queryType\":\"weather\"}" -> Obj([queryType |-> Str("weather")])
      [] s = "{\"dateRangeType\":\"yesterday\",\"size\":\"abc\"}" ->
            Obj([dateRangeType |-> Str("yesterday"), size |-> Str("abc")])

\* JSON.stringify on the objects JsonParse yields
JsonStringify(v) == Str(CHOOSE s \in JsonTexts : JsonParse(s) = v)

\* the turns offered to upsertTurn; rawResultsParam is a string or a parsed object
TurnInputs ==
    { [userMessage |-> "show events", assistantResponse |-> "2 events", queryType |-> "events",
       rawResultsParam |-> Str("{\"total\":2}")],
      [userMessage |-> "hi", assistantResponse |-> "hello", queryType |-> "",
       rawResultsParam |-> Str("not json")],
      [userMessage |-> "about variphi", assistantResponse |-> "a company", queryType |-> "variphi",
       rawResultsParam |-> Obj([total |-> Num(2)])] }

VARIABLES
    collection,     \* the MongoDB collection: documents in insertion order
    pc,             \* per invocation slot: "idle", "find", "write"
    arg,            \* per slot: the parameters of the invocation in progress / last made
    existingConversation, \* per slot: what findOne returned
    chatMessage,    \* per slot: the turn built after findOne
    conversationId, \* per slot: the id chosen for the call
    ret,            \* per slot: what the last invocation returned or threw
    storeOps,       \* per slot: collection operations issued by the invocation
    oid,            \* ObjectId generator state
    clock,          \* Date generator state
    output,         \* the results pushed by the store node, in completion order
    getArg,         \* the parameters of the last getConversation
    getRet,         \* what the last getConversation returned or threw
    getOps,         \* collection operations issued by the last getConversation
    calls           \* number of invocations started, per node

ledgerVars == <<collection, pc, arg, existingConversation, chatMessage, conversationId,
                ret, storeOps, oid, clock, output, getArg, getRet, getOps, calls>>

NoDoc == [none |-> TRUE]
NoArg == [op |-> "none"]
NoRet == [kind |-> "none"]

\* collection.findOne({ clientId }): the first matching document, or null
MatchingIndexes(coll, clientId) == {i \in 1..Len(coll) : coll[i].clientId = clientId}
Min(S) == CHOOSE x \in S : \A y \in S : x <= y
FindOne(coll, clientId) ==
    IF MatchingIndexes(coll, clientId) = {} THEN NoDoc
    ELSE coll[Min(MatchingIndexes(coll, clientId))]

\* collection.insertOne(doc)
InsertOne(coll, doc) == Append(coll, doc)

\* updateOne with $set in place of $push: the message list is overwritten
UpdateOne_replace(coll, clientId, msg, now) ==
    IF MatchingIndexes(coll, clientId) = {} THEN coll
    ELSE LET i == Min(MatchingIndexes(coll, clientId))
         IN  [coll EXCEPT ![i] = [@ EXCEPT !.messages = <<msg>>, !.updatedAt = now]]

\* updateOne pushing at position 0: the new turn goes in front
UpdateOne_prepend(coll, clientId, msg, now) ==
    IF MatchingIndexes(coll, clientId) = {} THEN coll
    ELSE LET i == Min(MatchingIndexes(coll, clientId))
         IN  [coll EXCEPT ![i] = [@ EXCEPT !.messages = <<msg>> \o @, !.updatedAt = now]]

\* collection.updateOne({ clientId }, { $push: { messages }, $set: { updatedAt } }):
\* changes the first matching document only, nothing when none matches
UpdateOne(coll, clientId, msg, now) ==
    IF MatchingIndexes(coll, clientId) = {} THEN coll
    ELSE LET i == Min(MatchingIndexes(coll, clientId))
         IN  [coll EXCEPT ![i] = [@ EXCEPT !.messages = Append(@, msg), !.updatedAt = now]]

\* the store guard without the "null" / "undefined" literals
StoreMissingClientId_blankOnly(clientId) ==
    \/ clientId = ""
    \/ Trim(clientId) = ""

\* the clientId guard of the store node
StoreMissingClientId(clientId) ==
    \/ clientId = ""
    \/ Trim(clientId) = ""
    \/ clientId = "null"
    \/ clientId = "undefined"

\* the get guard refusing the "null" / "undefined" literals as well
GetMissingClientId_literals(clientId) ==
    \/ clientId = ""
    \/ Trim(clientId) = ""
    \/ clientId = "null"
    \/ clientId = "undefined"

\* the clientId guard of the get node
GetMissingClientId(clientId) ==
    \/ clientId = ""
    \/ Trim(clientId) = ""

\* the raw-results parsing of the store node
ParseRawResults(param) ==
    IF IsStr(param) /\ Trim(param.str) # ""
    THEN IF JsonParses(param.str) THEN JsonParse(param.str)
         ELSE Obj([data |-> param])
    ELSE IF IsObj(param) \/ IsNull(param) THEN param
    ELSE Obj(<<>>)

\* queryType || 'unknown'
QueryTypeOrUnknown(q) == IF q = "" THEN "unknown" ELSE q

LedgerInit ==
    /\ collection = <<>>
    /\ pc = [p \in Procs |-> "idle"]
    /\ arg = [p \in Procs |-> NoArg]
    /\ existingConversation = [p \in Procs |-> NoDoc]
    /\ chatMessage = [p \in Procs |-> NoDoc]
    /\ conversationId = [p \in Procs |-> 0]
    /\ ret = [p \in Procs |-> NoRet]
    /\ storeOps = [p \in Procs |-> 0]
    /\ oid = 0
    /\ clock = 0
    /\ output = <<>>
    /\ getArg = NoArg
    /\ getRet = NoRet
    /\ getOps = 0
    /\ calls = [upsert |-> 0, get |-> 0]

\* MongoDbStoreConversation.execute up to client.connect(): parameters and validation
UpsertStart(p, clientId, turn) ==
    /\ pc[p] = "idle"
    /\ calls.upsert + calls.get < MaxCalls
    /\ calls' = [calls EXCEPT !.upsert = @ + 1]
    /\ arg' = [arg EXCEPT ![p] = [op |-> "upsert", clientId |-> clientId, turn |-> turn]]
    /\ storeOps' = [storeOps EXCEPT ![p] = 0]
    /\ existingConversation' = [existingConversation EXCEPT ![p] = NoDoc]
    /\ chatMessage' = [chatMessage EXCEPT ![p] = NoDoc]
    /\ conversationId' = [conversationId EXCEPT ![p] = 0]
    /\ IF StoreMissingClientId(clientId)
       THEN /\ ret' = [ret EXCEPT ![p] = [kind |-> "error",
                         message |-> "MongoDB Store Conversation Error: Client ID is required and cannot be empty or null"]]
            /\ pc' = pc
       ELSE /\ ret' = [ret EXCEPT ![p] = NoRet]
            /\ pc' = [pc EXCEPT ![p] = "find"]
    /\ UNCHANGED <<collection, oid, clock, output, getArg, getRet, getOps>>

\* findOne resolves; the turn and, for a new client, the conversation id are built
UpsertFind(p) ==
    /\ pc[p] = "find"
    /\ LET found == FindOne(collection, arg[p].clientId)
           isNew == found = NoDoc
       IN  /\ existingConversation' = [existingConversation EXCEPT ![p] = found]
           /\ chatMessage' = [chatMessage EXCEPT ![p] =
                 [chatId |-> oid + 1,
                  userMessage |-> arg[p].turn.userMessage,
                  assistantResponse |-> arg[p].turn.assistantResponse,
                  queryType |-> QueryTypeOrUnknown(arg[p].turn.queryType),
                  rawResults |-> ParseRawResults(arg[p].turn.rawResultsParam),
                  timestamp |-> clock + 1]]
           /\ conversationId' = [conversationId EXCEPT ![p] =
                 IF isNew THEN oid + 2 ELSE found.conversationId]
           /\ oid' = IF isNew THEN oid + 2 ELSE oid + 1
    /\ clock' = clock + 1
    /\ storeOps' = [storeOps EXCEPT ![p] = @ + 1]
    /\ pc' = [pc EXCEPT ![p] = "write"]
    /\ UNCHANGED <<collection, arg, ret, output, getArg, getRet, getOps, calls>>

\* the messages?.length || 0 of the returned messageCount
MessagesLength(doc) == Len(doc.messages)

\* updateOne or insertOne resolves and the result is pushed to the output
UpsertWrite(p) ==
    /\ pc[p] = "write"
    /\ LET existing == existingConversation[p]
           isNew == existing = NoDoc
       IN  /\ collection' =
                 IF isNew
                 THEN InsertOne(collection,
                        [conversationId |-> conversationId[p],
                         clientId |-> arg[p].clientId,
                         messages |-> <<chatMessage[p]>>,
                         createdAt |-> clock + 1,
                         updatedAt |-> clock + 1])
                 ELSE UpdateOne(collection, arg[p].clientId, chatMessage[p], clock + 1)
           /\ ret' = [ret EXCEPT ![p] =
                 [kind |-> "stored",
                  success |-> TRUE,
                  conversationId |-> conversationId[p],
                  clientId |-> arg[p].clientId,
                  chatId |-> chatMessage[p].chatId,
                  operation |-> IF isNew THEN "created" ELSE "updated",
                  messageCount |-> IF isNew THEN 1 ELSE MessagesLength(existing) + 1]]
    /\ clock' = clock + 1
    /\ storeOps' = [storeOps EXCEPT ![p] = @ + 1]
    /\ output' = Append(output, ret'[p])
    /\ pc' = [pc EXCEPT ![p] = "idle"]
    /\ UNCHANGED <<arg, existingConversation, chatMessage, conversationId, oid, getArg, getRet, getOps, calls>>

\* the message formatting of the get node
FormatMessage(msg, includeRawResults) ==
    [chatId |-> msg.chatId,
     userMessage |-> msg.userMessage,
     assistantResponse |-> msg.assistantResponse,
     queryType |-> msg.queryType,
     timestamp |-> msg.timestamp,
     rawResults |-> IF includeRawResults THEN msg.rawResults ELSE Undef]

\* what MongoDbGetConversation.execute returns or throws for one item
GetConversationResult(coll, clientId, includeRawResults) ==
    IF GetMissingClientId(clientId)
    THEN [kind |-> "error", message |-> "MongoDB Get Conversation Error: Client ID is required"]
    ELSE LET conversation == FindOne(coll, clientId)
         IN  IF conversation = NoDoc
             THEN [kind |-> "got", success |-> TRUE, found |-> FALSE, clientId |-> clientId,
                   conversationId |-> 0, messages |-> <<>>, messageCount |-> 0]
             ELSE LET messages == [i \in 1..Len(conversation.messages) |->
                                      FormatMessage(conversation.messages[i], includeRawResults)]
                  IN  [kind |-> "got", success |-> TRUE, found |-> TRUE, clientId |-> clientId,
                       conversationId |-> conversation.conversationId,
                       messages |-> messages, messageCount |-> Len(messages),
                       createdAt |-> conversation.createdAt,
                       updatedAt |-> conversation.updatedAt]

\* MongoDbGetConversation.execute for one item
GetConversation(clientId, includeRawResults) ==
    /\ calls.upsert + calls.get < MaxCalls
    /\ calls' = [calls EXCEPT !.get = @ + 1]
    /\ getArg' = [op |-> "get", clientId |-> clientId, includeRawResults |-> includeRawResults]
    /\ getRet' = GetConversationResult(collection, clientId, includeRawResults)
    /\ getOps' = IF GetMissingClientId(clientId) THEN 0 ELSE 1
    /\ UNCHANGED <<collection, pc, arg, existingConversation, chatMessage, conversationId,
                   ret, storeOps, oid, clock, output>>

(***************************************************************************)
(* Intent classifier (AiParseQuery).                                       *)
(***************************************************************************)
generalKeywords ==
    {"hi", "hello", "hey", "greetings", "good morning", "good afternoon", "good evening",
     "thank you", "thanks", "thank", "bye", "goodbye", "see you",
     "what is your name", "your name", "who are you", "what are you",
     "how are you", "whats up", "what's up", "help", "can you help"}

nvrKeywords ==
    {"nvr", "streaming", "recording", "video recording", "live stream",
     "stream setup", "recording settings", "stream configuration",
     "video storage", "playback", "stream quality", "bitrate", "resolution",
     "codec", "rtsp", "rtmp", "hls", "recording schedule", "storage management",
     "stream protocol", "video codec", "stream bitrate", "set up", "setup"}

variphiKeywords ==
    {"variphi", "company", "about variphi", "tell me about variphi", "tell me about the company",
     "who is variphi", "what is variphi", "what does variphi do",
     "variphi company", "variphi founded", "variphi founder", "nitish mishra",
     "variphi mission", "variphi vision", "variphi services", "variphi technology",
     "variphi ai", "variphi solutions", "variphi team", "variphi history",
     "about the company", "about your company", "who founded variphi", "when was variphi founded"}

\* length below which the general keywords need a boundary
ShortMessageLength == 15

\* message.toLowerCase().trim()
MessageLower(message) == Trim(ToLowerCase(message))

\* the general predicate using substring containment at every length
GeneralKeywordMatches_substring(messageLower, keyword) ==
    Includes(messageLower, ToLowerCase(keyword))

\* the general predicate accepting any short message that begins with the keyword
GeneralKeywordMatches_prefix(messageLower, keyword) ==
    LET keywordLower == ToLowerCase(keyword)
    IN  IF Len(messageLower) < ShortMessageLength
        THEN \/ StartsWith(messageLower, keywordLower)
             \/ EndsWith(messageLower, " " \o keywordLower)
        ELSE Includes(messageLower, keywordLower)

\* the predicate passed to generalKeywords.some
GeneralKeywordMatches(messageLower, keyword) ==
    LET keywordLower == ToLowerCase(keyword)
    IN  IF Len(messageLower) < ShortMessageLength
        THEN \/ messageLower = keywordLower
             \/ StartsWith(messageLower, keywordLower \o " ")
             \/ StartsWith(messageLower, keywordLower \o "?")
             \/ StartsWith(messageLower, keywordLower \o "!")
             \/ EndsWith(messageLower, " " \o keywordLower)
             \/ messageLower = keywordLower \o "?"
             \/ messageLower = keywordLower \o "!"
        ELSE Includes(messageLower, keywordLower)

isGeneralQuery(message) ==
    \E keyword \in generalKeywords : GeneralKeywordMatches(MessageLower(message), keyword)

isNvrQuery(message) ==
    \E keyword \in nvrKeywords : Includes(MessageLower(message), ToLowerCase(keyword))

\* the Variphi check without lower-casing the message
isVariphiQuery_caseSensitive(message) ==
    \E keyword \in variphiKeywords : Includes(Trim(message), ToLowerCase(keyword))

isVariphiQuery(message) ==
    \E keyword \in variphiKeywords : Includes(MessageLower(message), ToLowerCase(keyword))


\* the node parameters with their declared defaults
defaultHost == Str("34.173.116.41")
defaultPort == Str("9200")
defaultIndex == Str("events")
defaultUsername == Str("elastic")
defaultPassword == Str("variphi@2024")

\* the properties read from the request body
BodyFields ==
    {"message", "host", "port", "index", "username", "password", "status", "resolution_status",
     "admin_client_id", "viewer_client_id", "camera_detail_id", "size", "from", "sortField",
     "sortOrder", "query", "dateRange"}
EmptyBody == [f \in BodyFields |-> Undef]

\* the request bodies offered to the classifier, before the message is filled in
Bodies ==
    { EmptyBody,
      [EmptyBody EXCEPT !.status = Str("LABELLED"), !.size = Num(20), !.from = Num(10),
                        !.admin_client_id = Str("abc"),
                        !.dateRange = Obj([today |-> [bool |-> TRUE]])],
      [EmptyBody EXCEPT !.size = Str("abc"), !.query = Obj([match_all |-> Obj(<<>>)]),
                        !.dateRange = Obj([gte |-> Str("2024-01-01T00:00:00Z"),
                                           field |-> Str("created_at")])] }

\* message texts: a core, possibly with something before and after it
MessageCores ==
    generalKeywords \cup nvrKeywords \cup variphiKeywords
      \cup {"history", "show me events", "Hi", "THANKS", "Variphi", "NVR", "events",
            "hi variphi nvr setup", "hello nvr"}
MessagePrefixes == {"", "oh ", "my", " "}
MessageSuffixes == {"", "?", "!", " there", ", ok", " and the rest of it"}
Messages ==
    {pre \o core \o suf : pre \in MessagePrefixes, core \in MessageCores, suf \in MessageSuffixes}

\* body.message values: texts, and the values that are no natural-language message
MessageValues == {Str(m) : m \in Messages} \cup {Undef, Str(""), Num(7)}

\* the message contents the completion backend may return
LlmContents ==
    {"{\"queryType\":\"general\"}", "{\"queryType\":\"nvr\"}", "{\"queryType\":\"variphi\"}",
     "{\"queryType\":\"events\",\"dateRangeType\":\"today\",\"status\":\"LABELLED\",\"size\":20}",
     "Here it is:\n{\"queryType\":\"nvr\"}\nDone.", " {\"queryType\":\"weather\"} ",
     "{\"dateRangeType\":\"yesterday\",\"size\":\"abc\"}", "{}",
     "Sorry, I cannot answer that.", "{\"queryType\":", "{\"queryType\":\"nvr\"} or {\"queryType\":\"events\"}",
     "null", "42"}

\* what axios.post can do: reject, resolve without choices, resolve with a content
LlmOutcomes ==
    {[kind |-> "rejected"], [kind |-> "nochoices"]}
      \cup {[kind |-> "content", content |-> c] : c \in LlmContents}

VARIABLES
    cpc,            \* classifier position: "idle", "start", "llm" (awaiting axios.post), "done"
    inputData,      \* the item being classified
    apiKey,         \* the resolved OpenRouter key of the item
    matched,        \* the three keyword flags of the item
    llmCalls,       \* completion requests issued for the item
    response,       \* how the completion request settled
    result          \* what the item produced: params pushed to returnData, or an error

classifyVars == <<cpc, inputData, apiKey, matched, llmCalls, response, result>>

VARIABLES
    esPc,           \* events query node position: "idle", "start", "request", "done"
    esInput,        \* the item handed to the events query node
    esParams,       \* the node parameters of the item
    esEnv,          \* process.env as the node sees it
    esRequest,      \* the search request issued for the item, if any
    esRequests,     \* number of search requests issued for the item
    esResult        \* what the item produced: an output item or an error

queryVars == <<esPc, esInput, esParams, esEnv, esRequest, esRequests, esResult>>

VARIABLES
    shPc,           \* result shaper position: "idle", "start", "llm", "done"
    shInput,        \* the item handed to the result shaper
    shApiKeyParam,  \* the apiKey node parameter of the item
    shEnv,          \* process.env as the shaper sees it
    context,        \* the context block built for the item, piece by piece
    systemPrompt,   \* the system prompt built for the item
    totalCount,     \* the total the shaper reports for the item
    shRequests,     \* completion requests issued for the item
    shResult        \* what the item produced: an output item or an error

shapeVars == <<shPc, shInput, shApiKeyParam, shEnv, context, systemPrompt, totalCount,
               shRequests, shResult>>

vars == <<ledgerVars, classifyVars, queryVars, shapeVars>>

NoResult == [kind |-> "none"]

NoFlags == [general |-> FALSE, nvr |-> FALSE, variphi |-> FALSE]

\* the classifier before any item is handed to it
ClassifyIdle ==
    /\ cpc = "idle"
    /\ inputData = [body |-> EmptyBody]
    /\ apiKey = ""
    /\ matched = NoFlags
    /\ llmCalls = 0
    /\ response = [kind |-> "none"]
    /\ result = NoResult

\* the message found under the default messageField path body.message
ExtractMessage(data) == data.body.message

\* any string, the empty one included, taken as a message
HasMessage_anyString(message) == IsStr(message)

\* true when the item carries a natural-language message
HasMessage(message) == Truthy(message) /\ IsStr(message)

\* the dateRange handling of the structured path
StructuredDateRange(body) ==
    LET dr == body.dateRange
        none == [dateRangeType |-> Str("none"), dateField |-> Str("capture_time"),
                 fromDate |-> Str(""), toDate |-> Str("")]
    IN  IF ~Truthy(dr) THEN none
        ELSE LET kind == [none EXCEPT !.dateField = JsOr(Property(dr, "field"), Str("capture_time"))]
             IN  IF Truthy(Property(dr, "today")) THEN [kind EXCEPT !.dateRangeType = Str("today")]
                 ELSE IF Truthy(Property(dr, "yesterday")) THEN [kind EXCEPT !.dateRangeType = Str("yesterday")]
                 ELSE IF Truthy(Property(dr, "last7days")) THEN [kind EXCEPT !.dateRangeType = Str("last7days")]
                 ELSE IF Truthy(Property(dr, "gte")) \/ Truthy(Property(dr, "lte"))
                      THEN [kind EXCEPT !.dateRangeType = Str("custom"),
                                        !.fromDate = JsOr(Property(dr, "gte"), Str("")),
                                        !.toDate = JsOr(Property(dr, "lte"), Str(""))]
                 ELSE kind

\* body.query ? JSON.stringify(body.query) : ''
CustomQueryOf(body) == IF Truthy(body.query) THEN JsonStringify(body.query) ELSE Str("")

\* the params of the structured (no message) path
StructuredParams(body) ==
    LET dr == StructuredDateRange(body)
    IN  [queryType |-> Str("events"),
         host |-> JsOr(body.host, defaultHost),
         port |-> JsOr(body.port, defaultPort),
         index |-> JsOr(body.index, defaultIndex),
         username |-> JsOr(body.username, defaultUsername),
         password |-> JsOr(body.password, defaultPassword),
         status |-> JsOr(body.status, Str("")),
         resolutionStatus |-> JsOr(body.resolution_status, Str("")),
         adminClientId |-> JsOr(body.admin_client_id, Str("")),
         cameraDetailId |-> JsOr(body.camera_detail_id, Str("")),
         size |-> JsOr(body.size, Num(50)),
         from |-> JsOr(body.from, Num(0)),
         sortField |-> JsOr(body.sortField, Str("capture_time")),
         sortOrder |-> JsOr(body.sortOrder, Str("desc")),
         customQuery |-> CustomQueryOf(body),
         dateRangeType |-> dr.dateRangeType,
         dateField |-> dr.dateField,
         fromDate |-> dr.fromDate,
         toDate |-> dr.toDate,
         originalMessage |-> Str("")]

\* the params of the three keyword stages and of the non-events model results
GeneralParams(message) ==
    [queryType |-> Str("general"), generalQuery |-> message, originalMessage |-> message]
NvrParams(message) ==
    [queryType |-> Str("nvr"), nvrQuery |-> message, originalMessage |-> message]
VariphiParams(message) ==
    [queryType |-> Str("variphi"), variphiQuery |-> message, originalMessage |-> message]


\* rawResponse.match(/\{[\s\S]*\}/): greedy, from the first "{" to the last "}" after it
BraceOpens(s) == {i \in 1..Len(s) : CharAt(s, i) = "{"}
BraceCloses(s) == {i \in 1..Len(s) : CharAt(s, i) = "}"}
Max(S) == CHOOSE x \in S : \A y \in S : x >= y
HasJsonMatch(s) ==
    /\ BraceOpens(s) # {}
    /\ \E j \in BraceCloses(s) : j > Min(BraceOpens(s))
JsonMatch(s) == SubSeq(s, Min(BraceOpens(s)), Max(BraceCloses(s)))

\* the default query without its size
FallbackQuery_noSize ==
    Obj([queryType |-> Str("events"), dateRangeType |-> Str("none"),
         dateField |-> Str("capture_time"), status |-> Str(""), resolutionStatus |-> Str(""),
         sortField |-> Str("capture_time"), sortOrder |-> Str("desc")])

\* the default query used when the model's content does not parse
FallbackQuery ==
    Obj([queryType |-> Str("events"), dateRangeType |-> Str("none"),
         dateField |-> Str("capture_time"), status |-> Str(""), resolutionStatus |-> Str(""),
         size |-> Num(50), sortField |-> Str("capture_time"), sortOrder |-> Str("desc")])

\* the content parsing without the catch block: a parse error leaves no query
ParseLlmContent_noFallback(content) ==
    LET rawResponse == Trim(content)
        text == IF HasJsonMatch(rawResponse) THEN JsonMatch(rawResponse) ELSE rawResponse
    IN  IF JsonParses(text) THEN JsonParse(text) ELSE Null

\* parsedQuery: the JSON found in the model's content, or the fallback
ParseLlmContent(content) ==
    LET rawResponse == Trim(content)
        text == IF HasJsonMatch(rawResponse) THEN JsonMatch(rawResponse) ELSE rawResponse
    IN  IF JsonParses(text) THEN JsonParse(text) ELSE FallbackQuery

\* the keyword double-check applied to the model's queryType
OverrideQueryType(queryType, flags) ==
    LET afterVariphi == IF queryType # Str("variphi") /\ flags.variphi THEN Str("variphi") ELSE queryType
        afterNvr == IF afterVariphi # Str("nvr") /\ flags.nvr THEN Str("nvr") ELSE afterVariphi
    IN  IF afterNvr # Str("general") /\ flags.general THEN Str("general") ELSE afterNvr

\* the events params built from the model's answer and the body
EventsParams(queryType, message, body, parsedQuery) ==
    [queryType |-> queryType,
     originalMessage |-> message,
     host |-> JsOr(body.host, defaultHost),
     port |-> JsOr(body.port, defaultPort),
     index |-> JsOr(body.index, defaultIndex),
     username |-> JsOr(body.username, defaultUsername),
     password |-> JsOr(body.password, defaultPassword),
     status |-> JsOr(Property(parsedQuery, "status"), Str("")),
     resolutionStatus |-> JsOr(Property(parsedQuery, "resolutionStatus"), Str("")),
     adminClientId |-> JsOr(JsOr(Property(parsedQuery, "adminClientId"), body.admin_client_id), Str("")),
     viewerClientId |-> JsOr(JsOr(Property(parsedQuery, "viewerClientId"), body.viewer_client_id), Str("")),
     cameraDetailId |-> JsOr(JsOr(Property(parsedQuery, "cameraDetailId"), body.camera_detail_id), Str("")),
     dateRangeType |-> JsOr(Property(parsedQuery, "dateRangeType"), Str("none")),
     dateField |-> JsOr(Property(parsedQuery, "dateField"), Str("capture_time")),
     fromDate |-> JsOr(Property(parsedQuery, "fromDate"), Str("")),
     toDate |-> JsOr(Property(parsedQuery, "toDate"), Str("")),
     size |-> JsOr(JsOr(Property(parsedQuery, "size"), body.size), Num(50)),
     from |-> JsOr(body.from, Num(0)),
     sortField |-> JsOr(Property(parsedQuery, "sortField"), Str("capture_time")),
     sortOrder |-> JsOr(Property(parsedQuery, "sortOrder"), Str("desc")),
     customQuery |-> CustomQueryOf(body)]

\* the params built after the model answered with parsedQuery
LlmParams(message, body, parsedQuery, flags) ==
    LET queryType == OverrideQueryType(JsOr(Property(parsedQuery, "queryType"), Str("events")), flags)
    IN  IF queryType = Str("general") THEN GeneralParams(message)
        ELSE IF queryType = Str("nvr") THEN NvrParams(message)
        ELSE IF queryType = Str("variphi") THEN VariphiParams(message)
        ELSE EventsParams(queryType, message, body, parsedQuery)

\* what the try block around axios.post produces for one outcome of the request
LlmResult(outcome, message, body, flags) ==
    IF outcome.kind = "rejected"
    THEN [kind |-> "error", message |-> "OpenRouter Error: request failed"]
    ELSE IF outcome.kind = "nochoices"
    THEN [kind |-> "error", message |-> "OpenRouter Error: Cannot read properties of undefined"]
    ELSE LET parsedQuery == ParseLlmContent(outcome.content)
         IN  IF PropertyThrows(parsedQuery)
             THEN [kind |-> "error", message |-> "OpenRouter Error: Cannot read properties of null"]
             ELSE [kind |-> "params", params |-> LlmParams(message, body, parsedQuery, flags)]

\* the keyword stages without the general stage
KeywordStage_skipGeneral(flags) ==
    IF flags.variphi THEN "variphi"
    ELSE IF flags.nvr THEN "nvr"
    ELSE "none"

\* the keyword stages with the general stage tried first
KeywordStage_generalFirst(flags) ==
    IF flags.general THEN "general"
    ELSE IF flags.variphi THEN "variphi"
    ELSE IF flags.nvr THEN "nvr"
    ELSE "none"

\* the three keyword stages in the order they are tried; "none" when all fail
KeywordStage(flags) ==
    IF flags.variphi THEN "variphi"
    ELSE IF flags.nvr THEN "nvr"
    ELSE IF flags.general THEN "general"
    ELSE "none"

\* AiParseQuery.execute for one item, up to the completion request
ClassifyStart ==
    /\ cpc = "start"
    /\ LET message == ExtractMessage(inputData)
           body == inputData.body
       IN  IF ~HasMessage(message)
           THEN /\ matched' = NoFlags
                /\ result' = [kind |-> "params", params |-> StructuredParams(body)]
                /\ llmCalls' = 0
                /\ cpc' = "done"
           ELSE /\ matched' = [general |-> isGeneralQuery(message.str),
                               nvr |-> isNvrQuery(message.str),
                               variphi |-> isVariphiQuery(message.str)]
                /\ LET stage == KeywordStage(matched')
                   IN  IF stage = "variphi"
                       THEN /\ result' = [kind |-> "params", params |-> VariphiParams(message)]
                            /\ llmCalls' = 0
                            /\ cpc' = "done"
                       ELSE IF stage = "nvr"
                       THEN /\ result' = [kind |-> "params", params |-> NvrParams(message)]
                            /\ llmCalls' = 0
                            /\ cpc' = "done"
                       ELSE IF stage = "general"
                       THEN /\ result' = [kind |-> "params", params |-> GeneralParams(message)]
                            /\ llmCalls' = 0
                            /\ cpc' = "done"
                       ELSE IF apiKey = ""
                       THEN /\ result' = [kind |-> "error", message |-> "OpenRouter API key is required"]
                            /\ llmCalls' = 0
                            /\ cpc' = "done"
                       ELSE /\ result' = NoResult
                            /\ llmCalls' = 1
                            /\ cpc' = "llm"
    /\ UNCHANGED <<inputData, apiKey, response>>
    /\ UNCHANGED <<ledgerVars, queryVars, shapeVars>>

\* axios.post settles and the rest of the try block runs
LlmRespond(outcome) ==
    /\ cpc = "llm"
    /\ response' = outcome
    /\ result' = LlmResult(outcome, ExtractMessage(inputData), inputData.body, matched)
    /\ cpc' = "done"
    /\ UNCHANGED <<inputData, apiKey, matched, llmCalls>>
    /\ UNCHANGED <<ledgerVars, queryVars, shapeVars>>

\* the items offered to the classifier
ItemOf(b, m) == [body |-> [b EXCEPT !.message = m]]
BodyMessages == {Undef, Str(""), Num(7), Str("show me events"), Str("history"), Str("hi")}
InputItems ==
    {ItemOf(EmptyBody, m) : m \in MessageValues} \cup {ItemOf(b, m) : b \in Bodies, m \in BodyMessages}
ApiKeys == {"", "sk-or-key"}

(***************************************************************************)
(* Events query node (ElasticsearchEventsQuery).                           *)
(***************************************************************************)
\* process.env.TIMEZONE || 'Asia/Kolkata'
DefaultTimezone == "Asia/Kolkata"
\* the timezone without the environment lookup
TimezoneOf_default(env) == DefaultTimezone

TimezoneOf(env) == IF Truthy(env.TIMEZONE) THEN env.TIMEZONE.str ELSE DefaultTimezone

\* an object without properties
EmptyObject == <<>>

\* the bounds with a custom range that takes its lower bound only
DateRangeOf_fromOnly(params) ==
    IF params.dateRangeType = "today"
    THEN ("gte" :> "now/d") @@ ("lt" :> "now/d+1d")
    ELSE IF params.dateRangeType = "yesterday"
    THEN ("gte" :> "now-1d/d") @@ ("lt" :> "now/d")
    ELSE IF params.dateRangeType = "last7days"
    THEN ("gte" :> "now-7d/d") @@ ("lt" :> "now/d+1d")
    ELSE IF params.dateRangeType = "custom"
    THEN (IF params.fromDate # "" THEN "gte" :> params.fromDate ELSE EmptyObject)
    ELSE EmptyObject

\* the bounds put into dateRange for a date range type
DateRangeOf(params) ==
    IF params.dateRangeType = "today"
    THEN ("gte" :> "now/d") @@ ("lt" :> "now/d+1d")
    ELSE IF params.dateRangeType = "yesterday"
    THEN ("gte" :> "now-1d/d") @@ ("lt" :> "now/d")
    ELSE IF params.dateRangeType = "last7days"
    THEN ("gte" :> "now-7d/d") @@ ("lt" :> "now/d+1d")
    ELSE IF params.dateRangeType = "custom"
    THEN (IF params.fromDate # "" THEN "gte" :> params.fromDate ELSE EmptyObject)
           @@ (IF params.toDate # "" THEN "lte" :> params.toDate ELSE EmptyObject)
    ELSE EmptyObject

\* the date range filter pushed even when dateRange has no bound
DateFilters_alwaysPush(params, env) ==
    IF params.dateRangeType # "none"
    THEN << [range |-> (params.dateField :> (DateRangeOf(params) @@ ("time_zone" :> TimezoneOf(env))))] >>
    ELSE << >>

\* the date range filter: none, or one range clause tagged with the timezone
DateFilters(params, env) ==
    IF params.dateRangeType # "none" /\ DOMAIN DateRangeOf(params) # {}
    THEN << [range |-> (params.dateField :> (DateRangeOf(params) @@ ("time_zone" :> TimezoneOf(env))))] >>
    ELSE << >>

\* the status filter on the status as given, without a default
StatusFilters_asGiven(params) ==
    << [term |-> ("status.keyword" :> params.status)] >>

\* the status filter, defaulting to COMPLETED
StatusFilters(params) ==
    << [term |-> ("status.keyword" :> (IF params.status # "" THEN params.status ELSE "COMPLETED"))] >>

\* the resolution status filter
ResolutionFilters(params) ==
    IF params.resolutionStatus # ""
    THEN << [term |-> ("resolution_status.keyword" :> params.resolutionStatus)] >>
    ELSE << >>

\* the should clauses on the ownership fields only
ClientIdShouldClauses_ownershipOnly(params) ==
    (IF params.adminClientId # ""
     THEN << [term |-> ("pre_event_capture.camera_detail.admin_client_id.keyword" :> params.adminClientId)] >>
     ELSE << >>)
    \o
    (IF params.viewerClientId # ""
     THEN << [term |-> ("pre_event_capture.camera_detail.viewer_client_id.keyword" :> params.viewerClientId)] >>
     ELSE << >>)

\* clientIdShouldClauses
ClientIdShouldClauses(params) ==
    (IF params.adminClientId # ""
     THEN << [term |-> ("pre_event_capture.camera_detail.admin_client_id.keyword" :> params.adminClientId)],
             [term |-> ("image.dataset.client_id.keyword" :> params.adminClientId)] >>
     ELSE << >>)
    \o
    (IF params.viewerClientId # ""
     THEN << [term |-> ("pre_event_capture.camera_detail.viewer_client_id.keyword" :> params.viewerClientId)],
             [term |-> ("image.dataset.client_id.keyword" :> params.viewerClientId)] >>
     ELSE << >>)

\* the client id filter: an OR group over the should clauses
ClientFilters(params) ==
    IF (params.adminClientId # "" \/ params.viewerClientId # "") /\ Len(ClientIdShouldClauses(params)) > 0
    THEN << [bool |-> [should |-> ClientIdShouldClauses(params), minimum_should_match |-> 1]] >>
    ELSE << >>

\* the camera filter
CameraFilters(params) ==
    IF params.cameraDetailId # ""
    THEN << [term |-> ("pre_event_capture.camera_detail.id.keyword" :> params.cameraDetailId)] >>
    ELSE << >>

\* the filters array, in the order the clauses are pushed
BuildFilters(params, env) ==
    DateFilters(params, env) \o StatusFilters(params) \o ResolutionFilters(params)
      \o ClientFilters(params) \o CameraFilters(params)

\* the query: the parsed custom query, or the bool filter query
CustomQueryThrows(params) == params.customQuery # "" /\ ~JsonParses(params.customQuery)

\* the query built from the filters whatever the custom query
BuildQuery_ignoreOverride(params, env) ==
    IF Len(BuildFilters(params, env)) > 0
    THEN [bool |-> [filter |-> BuildFilters(params, env)]]
    ELSE [match_all |-> EmptyObject]

BuildQuery(params, env) ==
    IF params.customQuery # ""
    THEN JsonParse(params.customQuery)
    ELSE IF Len(BuildFilters(params, env)) > 0
         THEN [bool |-> [filter |-> BuildFilters(params, env)]]
         ELSE [match_all |-> EmptyObject]

\* esBody
EsBody(params, env) ==
    [query |-> BuildQuery(params, env),
     size |-> params.size,
     from |-> params.from,
     sort |-> << (params.sortField :> [order |-> params.sortOrder]) >>]

\* the request handed to axios.post
EsRequest(params, env) ==
    [url |-> "http://" \o params.host \o ":" \o params.port \o "/" \o params.index \o "/_search",
     body |-> EsBody(params, env),
     auth |-> IF params.username # "" /\ params.password # ""
              THEN [username |-> params.username, password |-> params.password]
              ELSE [none |-> TRUE]]

NoRequest == [none |-> TRUE]

\* the node parameters offered to the events query node
EsConnections ==
    { [host |-> "localhost", port |-> "9200", index |-> "events", username |-> "", password |-> ""] }
EsPagings ==
    { [size |-> 50, from |-> 0, sortField |-> "created_at", sortOrder |-> "desc"],
      [size |-> 20, from |-> 10, sortField |-> "capture_time", sortOrder |-> "asc"] }
EsParamSets ==
    { [host |-> c.host, port |-> c.port, index |-> c.index, username |-> c.username,
       password |-> c.password,
       status |-> st, resolutionStatus |-> rs, adminClientId |-> ad, viewerClientId |-> vw,
       cameraDetailId |-> cam, dateRangeType |-> drt, dateField |-> df, fromDate |-> fd,
       toDate |-> td, size |-> pg.size, from |-> pg.from, sortField |-> pg.sortField,
       sortOrder |-> pg.sortOrder, customQuery |-> cq] :
       c \in EsConnections, pg \in EsPagings,
       st \in {"", "LABELLED"}, rs \in {"", "Unresolved"},
       ad \in {"", "abc"}, vw \in {"", "xyz"}, cam \in {"", "cam-1"},
       drt \in {"none", "today", "yesterday", "last7days", "custom"},
       df \in {"capture_time", "created_at"},
       fd \in {"", "2024-01-01T00:00:00Z"}, td \in {"", "2024-01-31T23:59:59Z"},
       cq \in {"", "{\"match_all\":{}}", "{\"match_all\":"} }

\* the environments and the input items of the events query node
Environments == {[TIMEZONE |-> Undef], [TIMEZONE |-> Str("")], [TIMEZONE |-> Str("UTC")]}
EsInputs == {[queryType |-> t] : t \in {"events", "nvr", "general", "variphi"}}

\* what axios.post can do: reject, or resolve with the backend's data
EsOutcomes ==
    { [kind |-> "rejected", reason |-> "index_not_found_exception"],
      [kind |-> "data", hits |-> << >>, total |-> Obj([value |-> Num(0)]), took |-> 1,
       aggregations |-> Undef],
      [kind |-> "data", hits |-> << [id |-> "e1"], [id |-> "e2"] >>,
       total |-> Obj([value |-> Num(2)]), took |-> 3, aggregations |-> Undef],
      [kind |-> "data", hits |-> << [id |-> "e1"] >>, total |-> Num(1), took |-> 2,
       aggregations |-> Undef] }

\* data.hits.total?.value || data.hits.total || 0
TotalOf(total) == JsOr(JsOr(Property(total, "value"), total), Num(0))

\* the output envelope built from the backend's data
EsEnvelope(data, body) ==
    [hits |-> data.hits,
     total |-> TotalOf(data.total),
     query |-> body,
     took |-> data.took,
     aggregations |-> data.aggregations]

\* the events query node before any item is handed to it
QueryIdle ==
    /\ esPc = "idle"
    /\ esInput = [queryType |-> "events"]
    /\ esParams = [none |-> TRUE]
    /\ esEnv = [TIMEZONE |-> Undef]
    /\ esRequest = NoRequest
    /\ esRequests = 0
    /\ esResult = NoResult

\* ElasticsearchEventsQuery.execute for one item, up to the search request
QueryStart ==
    /\ esPc = "start"
    /\ IF esInput.queryType = "nvr"
       THEN /\ esResult' = [kind |-> "passthrough",
                            json |-> [queryType |-> "nvr",
                                      hits |-> [hits |-> << >>, total |-> [value |-> 0]]]]
            /\ esRequest' = NoRequest
            /\ esRequests' = 0
            /\ esPc' = "done"
       ELSE IF CustomQueryThrows(esParams)
       THEN /\ esResult' = [kind |-> "error", message |-> "Invalid custom query JSON"]
            /\ esRequest' = NoRequest
            /\ esRequests' = 0
            /\ esPc' = "done"
       ELSE /\ esResult' = NoResult
            /\ esRequest' = EsRequest(esParams, esEnv)
            /\ esRequests' = 1
            /\ esPc' = "request"
    /\ UNCHANGED <<esInput, esParams, esEnv>>
    /\ UNCHANGED <<ledgerVars, classifyVars, shapeVars>>

\* axios.post settles and the output item is built
QueryRespond(outcome) ==
    /\ esPc = "request"
    /\ esResult' =
          IF outcome.kind = "rejected"
          THEN [kind |-> "error", message |-> "Elasticsearch Error: " \o outcome.reason]
          ELSE [kind |-> "result", json |-> EsEnvelope(outcome, esRequest.body)]
    /\ esPc' = "done"
    /\ UNCHANGED <<esInput, esParams, esEnv, esRequest, esRequests>>
    /\ UNCHANGED <<ledgerVars, classifyVars, shapeVars>>

(***************************************************************************)
(* Result shaper (AiFormatEventsResponse).                                 *)
(***************************************************************************)
\* arrays are kept apart from the other JavaScript values
Arr(seq) == [arr |-> seq]
IsArr(v) == "arr" \in DOMAIN v

\* v.length
LengthOf(v) ==
    IF IsArr(v) THEN Num(Len(v.arr))
    ELSE IF IsStr(v) THEN Num(Len(v.str))
    ELSE Property(v, "length")

\* a > n for a number n: false when a is not a number
JsGreater(a, n) == IsNum(a) /\ a.num > n

\* convertToTimezone on the one valid timestamp and the two valid timezones
\* offered: the original for an invalid date or timezone
convertToTimezone(utcTimestamp, timezone) ==
    IF ~Truthy(utcTimestamp) THEN utcTimestamp
    ELSE IF ~IsStr(utcTimestamp) \/ utcTimestamp.str # "2024-01-01T00:00:00Z" THEN utcTimestamp
    ELSE IF timezone \notin {"Asia/Kolkata", "UTC"} THEN utcTimestamp
    ELSE IF timezone = "Asia/Kolkata" THEN Str("01/01/2024, 05:30:00 AM GMT+5:30")
    ELSE Str("01/01/2024, 12:00:00 AM UTC")

\* the records the search backend holds, in the shapes the shaper reads
Hit(i) ==
    IF i % 3 = 1
    THEN LET CameraDetail ==
                Obj([name |-> Str("Camera Echo"),
                     location |-> Obj([name |-> Str("Gate 1")]),
                     admin_client |-> Obj([company_name |-> Str("Acme")])])
             Annotation(n) ==
                Obj([type |-> Str("rectanglelabels"),
                     value |-> Obj([rectanglelabels |-> Arr(<< Str("person"), Str("helmet") >>)]),
                     ai_meta_data |-> Obj([class |-> Num(n)])])
         IN
         Obj([_source |->
             Obj([id |-> Num(i), capture_time |-> Str("2024-01-01T00:00:00Z"),
                  status |-> Str("COMPLETED"), resolution_status |-> Str("Unresolved"),
                  pre_event_capture |-> Obj([camera_detail |-> CameraDetail]),
                  annotations |-> Arr(<< Annotation(1), Annotation(2), Annotation(3), Annotation(4) >>),
                  labelled_captain |-> Obj([username |-> Str("captain")])])])
    ELSE IF i % 3 = 2
    THEN Obj([id |-> Num(i), capture_time |-> Str("not a date"), status |-> Str("LABELLED"),
              labelled_captain |-> Obj([email |-> Str("captain@example.com")])])
    ELSE Obj([id |-> Num(i)])
Hits(n) == [i \in 1..n |-> Hit(i)]

\* JSON.stringify of a flat object: properties holding undefined are left out
WithoutUndefined(fields) == [k \in {f \in DOMAIN fields : ~IsUndef(fields[f])} |-> fields[k]]

\* the first n entries of an array
Slice(seq, n) == SubSeq(seq, 1, IF Len(seq) < n THEN Len(seq) ELSE n)

\* the summary of one annotation
AnnotationInfo(ann) ==
    WithoutUndefined(
      [type |-> Property(ann, "type"),
       labels |-> LET labels == Property(Property(ann, "value"), "rectanglelabels")
                  IN  IF IsArr(labels) /\ Len(labels.arr) > 0 THEN labels.arr[1] ELSE Undef,
       ai_class |-> Property(Property(ann, "ai_meta_data"), "class")])

\* eventInfo of one hit, as JSON.stringify writes it
EventInfo(hit, timezone) ==
    LET source == JsOr(Property(hit, "_source"), hit)
        captureTimeUtc == Property(source, "capture_time")
        captureTimeLocal == IF Truthy(captureTimeUtc)
                            THEN convertToTimezone(captureTimeUtc, timezone)
                            ELSE captureTimeUtc
        cameraDetail == Property(Property(source, "pre_event_capture"), "camera_detail")
        annotations == Property(source, "annotations")
        captain == Property(source, "labelled_captain")
    IN  WithoutUndefined(
          [id |-> Property(source, "id"),
           capture_time |-> captureTimeLocal,
           capture_time_utc |-> captureTimeUtc,
           status |-> Property(source, "status"),
           resolution_status |-> Property(source, "resolution_status"),
           camera |-> IF Truthy(cameraDetail)
                      THEN Obj(WithoutUndefined(
                             [name |-> Property(cameraDetail, "name"),
                              location |-> Property(Property(cameraDetail, "location"), "name"),
                              admin_client |-> Property(Property(cameraDetail, "admin_client"), "company_name")]))
                      ELSE Undef,
           annotations |-> IF Truthy(annotations) /\ IsArr(annotations)
                           THEN Arr([j \in 1..Len(Slice(annotations.arr, 3)) |->
                                       AnnotationInfo(annotations.arr[j])])
                           ELSE Undef,
           labelled_by |-> IF Truthy(captain)
                           THEN JsOr(Property(captain, "username"), Property(captain, "email"))
                           ELSE Undef])

\* the counting keywords and the cap on listed events
countKeywords == {"how many", "total", "count", "number of"}
maxListedEvents == 15
maxListedDocuments == 3
maxDocumentLength == 300

\* \w of a regular expression, on lower-case text
IsWordChar(c) ==
    LET WordChars == "abcdefghijklmnopqrstuvwxyz0123456789_"
    IN  \E i \in 1..Len(WordChars) : CharAt(WordChars, i) = c

\* the counting keywords matched without lower-casing the question
isCountQuery_caseSensitive(question) ==
    \E keyword \in countKeywords :
       \E i \in 1..(Len(question) - Len(keyword) + 1) :
          /\ SubSeq(question, i, i + Len(keyword) - 1) = keyword
          /\ (i = 1 \/ ~IsWordChar(CharAt(question, i - 1)))
          /\ (i + Len(keyword) - 1 = Len(question) \/ ~IsWordChar(CharAt(question, i + Len(keyword))))

\* originalQuestion.toLowerCase().match(/\b(how many|total|count|number of)\b/i)
isCountQuery(question) ==
    LET text == ToLowerCase(question)
    IN  \E keyword \in countKeywords :
           \E i \in 1..(Len(text) - Len(keyword) + 1) :
              /\ SubSeq(text, i, i + Len(keyword) - 1) = keyword
              /\ (i = 1 \/ ~IsWordChar(CharAt(text, i - 1)))
              /\ (i + Len(keyword) - 1 = Len(text) \/ ~IsWordChar(CharAt(text, i + Len(keyword))))

\* the properties the shaper reads from its input item
ItemFields ==
    {"hits", "total", "count", "query", "took", "aggregations", "originalMessage", "queryType",
     "results", "totalResults", "adminClientId", "viewerClientId", "storageClientId", "clientId"}
EmptyItem == [f \in ItemFields |-> Undef]

\* inputData.hits?.hits || inputData.hits || []
EsDataOf(item) == JsOr(JsOr(Property(item.hits, "hits"), item.hits), Arr(<< >>))

\* inputData.hits?.total?.value || inputData.count || esData.length
EventsTotalCount(item) ==
    JsOr(JsOr(Property(Property(item.hits, "total"), "value"), item.count), LengthOf(EsDataOf(item)))

\* the number of events listed
MaxEventsOf(esData) == IF Len(esData.arr) < maxListedEvents THEN Len(esData.arr) ELSE maxListedEvents

\* the events listing with every returned hit listed
EventsListing_uncapped(esData, total, timezone) ==
    << [kind |-> "showing", shown |-> Len(esData.arr), of |-> total] >>
      \o [idx \in 1..Len(esData.arr) |->
            [kind |-> "event", number |-> idx, info |-> EventInfo(esData.arr[idx], timezone)]]

\* the events listing: header, capped event summaries and the trailing note
EventsListing(esData, total, timezone) ==
    << [kind |-> "showing", shown |-> MaxEventsOf(esData), of |-> total] >>
      \o [idx \in 1..MaxEventsOf(esData) |->
            [kind |-> "event", number |-> idx, info |-> EventInfo(esData.arr[idx], timezone)]]
      \o (IF JsGreater(total, MaxEventsOf(esData))
          THEN << [kind |-> "more", notShown |-> total.num - MaxEventsOf(esData)] >>
          ELSE << >>)

\* the context block with the counting branch taken for every counting question
EventsContext_countFirst(item, question, timezone) ==
    LET esData == EsDataOf(item)
        total == EventsTotalCount(item)
    IN  (IF ~IsUndef(total) THEN << [kind |-> "total", text |-> "Total results: ", total |-> total] >>
         ELSE << >>)
        \o
        (IF isCountQuery(question)
         THEN << [kind |-> "count",
                  text |-> "User is asking for a count/total. Total events found: ", total |-> total],
                 [kind |-> "text",
                  text |-> "Note: Do not list individual events, just provide the total count in a natural way."] >>
         ELSE IF IsArr(esData) /\ Len(esData.arr) > 0
         THEN EventsListing(esData, total, timezone)
         ELSE IF total = Num(0)
         THEN << [kind |-> "text", text |-> "No events found matching the criteria."] >>
         ELSE << [kind |-> "data", inputData |-> item] >>)

\* the context block of the events branch, piece by piece
EventsContext(item, question, timezone) ==
    LET esData == EsDataOf(item)
        total == EventsTotalCount(item)
    IN  (IF ~IsUndef(total) THEN << [kind |-> "total", text |-> "Total results: ", total |-> total] >>
         ELSE << >>)
        \o
        (IF isCountQuery(question) /\ JsGreater(total, 0)
         THEN << [kind |-> "count",
                  text |-> "User is asking for a count/total. Total events found: ", total |-> total],
                 [kind |-> "text",
                  text |-> "Note: Do not list individual events, just provide the total count in a natural way."] >>
         ELSE IF IsArr(esData) /\ Len(esData.arr) > 0
         THEN EventsListing(esData, total, timezone)
         ELSE IF total = Num(0)
         THEN << [kind |-> "text", text |-> "No events found matching the criteria."] >>
         ELSE << [kind |-> "data", inputData |-> item] >>)

\* docContent.length > 300 ? docContent.substring(0, 300) + '...' : docContent
TruncatedDoc(docContent) ==
    IF Len(docContent) > maxDocumentLength
    THEN SubSeq(docContent, 1, maxDocumentLength) \o "..."
    ELSE docContent

\* inputData.totalResults || results.length
DocumentsTotalCount(item) == JsOr(item.totalResults, LengthOf(JsOr(item.results, Arr(<< >>))))

\* the context block of the Variphi and NVR branches
DocumentsContext(item, about) ==
    LET results == JsOr(item.results, Arr(<< >>))
        total == DocumentsTotalCount(item)
        topResults == Slice(results.arr, maxListedDocuments)
    IN  IF JsGreater(total, 0)
        THEN << [kind |-> "found", about |-> about, total |-> total, shown |-> Len(topResults)] >>
               \o [idx \in 1..Len(topResults) |->
                     [kind |-> "document", number |-> idx,
                      content |-> TruncatedDoc(JsOr(Property(topResults[idx], "document"), Str("")).str),
                      metadata |->
                         LET metadata == Property(topResults[idx], "metadata")
                         IN  IF Truthy(metadata) /\ IsObj(metadata) /\ DOMAIN metadata.obj # {}
                             THEN [category |-> JsOr(Property(metadata, "category"), Str("N/A")),
                                   topic |-> JsOr(Property(metadata, "topic"), Str("N/A"))]
                             ELSE [none |-> TRUE]]]
        ELSE << [kind |-> "text", text |-> "No relevant information found about " \o about \o "."] >>

\* process.env.TIMEZONE || 'Asia/Kolkata', and its display name
TimezoneDisplay(timezone) == IF timezone = "Asia/Kolkata" THEN "IST" ELSE timezone

\* apiKeyParam || process.env.OPENROUTER_API_KEY || ''
ShaperApiKey(apiKeyParam, env) == JsOr(JsOr(Str(apiKeyParam), env.OPENROUTER_API_KEY), Str(""))

\* inputData[originalMessageField] || 'the user query', inputData.queryType || 'events'
OriginalQuestion(item) == JsOr(item.originalMessage, Str("the user query"))
ShaperQueryType(item) == JsOr(item.queryType, Str("events"))

\* what the shaper prepares for one item: context, system prompt and total
Prepared(item, env) ==
    LET timezone == TimezoneOf(env)
        originalQuestion == OriginalQuestion(item)
        queryType == ShaperQueryType(item)
    IN  IF queryType = Str("variphi")
        THEN [context |-> DocumentsContext(item, "Variphi company"),
              systemPrompt |-> [about |-> "variphi", question |-> originalQuestion],
              totalCount |-> DocumentsTotalCount(item)]
        ELSE IF queryType = Str("nvr")
        THEN [context |-> DocumentsContext(item, "NVR streaming and recording"),
              systemPrompt |-> [about |-> "nvr", question |-> originalQuestion],
              totalCount |-> DocumentsTotalCount(item)]
        ELSE [context |-> EventsContext(item, originalQuestion.str, timezone),
              systemPrompt |-> [about |-> "events", question |-> originalQuestion,
                                timezone |-> timezone, timezoneDisplay |-> TimezoneDisplay(timezone)],
              totalCount |-> EventsTotalCount(item)]

\* the events branch calls toLowerCase on a question that is no string
QuestionThrows(item) ==
    /\ ShaperQueryType(item) \notin {Str("variphi"), Str("nvr")}
    /\ ~IsStr(OriginalQuestion(item))

\* the result shaper before any item is handed to it
ShapeIdle ==
    /\ shPc = "idle"
    /\ shInput = EmptyItem
    /\ shApiKeyParam = ""
    /\ shEnv = [TIMEZONE |-> Undef, OPENROUTER_API_KEY |-> Undef]
    /\ context = << >>
    /\ systemPrompt = [none |-> TRUE]
    /\ totalCount = Num(0)
    /\ shRequests = 0
    /\ shResult = NoResult

\* AiFormatEventsResponse.execute for one item, up to the completion request
ShapeStart ==
    /\ shPc = "start"
    /\ IF ~Truthy(ShaperApiKey(shApiKeyParam, shEnv))
       THEN /\ shResult' = [kind |-> "error", message |-> "OpenRouter API key is required"]
            /\ UNCHANGED <<context, systemPrompt, totalCount, shRequests>>
            /\ shPc' = "done"
       ELSE IF QuestionThrows(shInput)
       THEN /\ shResult' = [kind |-> "error", message |-> "originalQuestion.toLowerCase is not a function"]
            /\ context' = << [kind |-> "total", text |-> "Total results: ", total |-> EventsTotalCount(shInput)] >>
            /\ totalCount' = EventsTotalCount(shInput)
            /\ UNCHANGED <<systemPrompt, shRequests>>
            /\ shPc' = "done"
       ELSE /\ context' = Prepared(shInput, shEnv).context
            /\ systemPrompt' = Prepared(shInput, shEnv).systemPrompt
            /\ totalCount' = Prepared(shInput, shEnv).totalCount
            /\ shRequests' = shRequests + 1
            /\ shResult' = NoResult
            /\ shPc' = "llm"
    /\ UNCHANGED <<shInput, shApiKeyParam, shEnv>>
    /\ UNCHANGED <<ledgerVars, classifyVars, queryVars>>

\* the answers of the completion backend to the shaper
ShaperOutcomes ==
    { [kind |-> "rejected"], [kind |-> "nochoices"],
      [kind |-> "content", content |-> " There were 5 events today.\n"] }

\* axios.post settles and the output item is built
ShapeRespond(outcome) ==
    /\ shPc = "llm"
    /\ shResult' =
          IF outcome.kind = "rejected"
          THEN [kind |-> "error", message |-> "OpenRouter Error: request failed"]
          ELSE IF outcome.kind = "nochoices"
          THEN [kind |-> "error", message |-> "OpenRouter Error: Cannot read properties of undefined"]
          ELSE [kind |-> "result",
                json |-> [message |-> Trim(outcome.content),
                          originalMessage |-> OriginalQuestion(shInput),
                          originalQuestion |-> OriginalQuestion(shInput),
                          rawData |-> shInput,
                          totalCount |-> totalCount,
                          adminClientId |-> shInput.adminClientId,
                          viewerClientId |-> shInput.viewerClientId,
                          storageClientId |-> shInput.storageClientId,
                          clientId |-> JsOr(shInput.clientId, shInput.storageClientId),
                          queryType |-> JsOr(shInput.queryType, Str("unknown"))]]
    /\ shPc' = "done"
    /\ UNCHANGED <<shInput, shApiKeyParam, shEnv, context, systemPrompt, totalCount, shRequests>>
    /\ UNCHANGED <<ledgerVars, classifyVars, queryVars>>

\* the output envelope of the events query node as an input item of the shaper
ItemOfEnvelope(envelope) ==
    [EmptyItem EXCEPT !.hits = Arr(envelope.hits), !.total = envelope.total,
                      !.query = Obj(<< >>), !.took = Num(envelope.took),
                      !.aggregations = envelope.aggregations]

\* a backend answer with n hits out of total matches, and the items made of it:
\* the envelope of the events query node, and the backend's own response shape
BackendData(n, total) ==
    [kind |-> "data", hits |-> Hits(n), total |-> Obj([value |-> Num(total)]), took |-> 1,
     aggregations |-> Undef]
EnvelopeItem(n, total) == ItemOfEnvelope(EsEnvelope(BackendData(n, total), [none |-> TRUE]))
RawItem(n, total) ==
    [EmptyItem EXCEPT !.hits = Obj([hits |-> Arr(Hits(n)), total |-> Obj([value |-> Num(total)])])]

\* the pages offered to the shaper: hits returned and total matches
MaxHits == 17
Pages ==
    { <<0, 0>>, <<0, 5>>, <<1, 1>>, <<2, 2>>, <<2, 120>>, <<maxListedEvents, maxListedEvents>>,
      <<maxListedEvents + 1, maxListedEvents + 1>>, <<MaxHits, MaxHits>>, <<MaxHits, 200>> }

\* the questions that come with an item; none means the field is absent
Questions ==
    { Undef, Num(7), Str("how many events today?"), Str("Total events"),
      Str("what is the event count"), Str("number of alerts"),
      Str("show me the latest events"), Str("show discounts"), Str("totally new events") }

\* the documents of the semantic lookups
Documents(n) ==
    [i \in 1..n |->
       IF i % 2 = 1
       THEN Obj([document |-> Str("Variphi builds AI solutions."),
                 metadata |-> Obj([category |-> Str("company")])])
       ELSE Obj([metadata |-> Obj(<< >>)])]

ShaperItems ==
    {[item EXCEPT !.originalMessage = q, !.adminClientId = Str("abc")] :
        item \in {EnvelopeItem(p[1], p[2]) : p \in Pages} \cup {RawItem(p[1], p[2]) : p \in Pages}
                   \cup {[EmptyItem EXCEPT !.hits = Arr(Hits(2)), !.count = Num(40)]},
        q \in Questions}
    \cup
    {[EmptyItem EXCEPT !.queryType = Str(t), !.results = r, !.totalResults = n,
                       !.originalMessage = Str("what is variphi"), !.storageClientId = Str("abc")] :
        t \in {"variphi", "nvr"},
        r \in {Undef, Arr(Documents(0)), Arr(Documents(2)), Arr(Documents(4))},
        n \in {Undef, Num(9)}}

ShaperKeys ==
    { [param |-> "", env |-> Undef], [param |-> "sk-or-key", env |-> Undef],
      [param |-> "", env |-> Str("sk-env")] }

Init == LedgerInit /\ ClassifyIdle /\ QueryIdle /\ ShapeIdle

\* concurrent ledger invocations
Next ==
    \/ \E p \in Procs, c \in ClientIds, t \in TurnInputs :
          UpsertStart(p, c, t) /\ UNCHANGED <<classifyVars, queryVars, shapeVars>>
    \/ \E p \in Procs : UpsertFind(p) /\ UNCHANGED <<classifyVars, queryVars, shapeVars>>
    \/ \E p \in Procs : UpsertWrite(p) /\ UNCHANGED <<classifyVars, queryVars, shapeVars>>
    \/ \E c \in ClientIds, r \in BOOLEAN :
          GetConversation(c, r) /\ UNCHANGED <<classifyVars, queryVars, shapeVars>>

Spec == Init /\ [][Next]_vars

\* ledger invocations made one after the other: none starts while another is in progress
AllIdle == \A p \in Procs : pc[p] = "idle"

NextSequential ==
    \/ \E p \in Procs, c \in ClientIds, t \in TurnInputs :
          AllIdle /\ UpsertStart(p, c, t) /\ UNCHANGED <<classifyVars, queryVars, shapeVars>>
    \/ \E p \in Procs : UpsertFind(p) /\ UNCHANGED <<classifyVars, queryVars, shapeVars>>
    \/ \E p \in Procs : UpsertWrite(p) /\ UNCHANGED <<classifyVars, queryVars, shapeVars>>
    \/ \E c \in ClientIds, r \in BOOLEAN :
          AllIdle /\ GetConversation(c, r) /\ UNCHANGED <<classifyVars, queryVars, shapeVars>>

SpecSequential == Init /\ [][NextSequential]_vars

\* classification of a sequence of items
ClassifyInit ==
    /\ cpc = "start"
    /\ inputData \in InputItems
    /\ apiKey \in ApiKeys
    /\ matched = NoFlags
    /\ llmCalls = 0
    /\ response = [kind |-> "none"]
    /\ result = NoResult

InitClassify == LedgerInit /\ ClassifyInit /\ QueryIdle /\ ShapeIdle

NextClassify ==
    \/ ClassifyStart
    \/ \E outcome \in LlmOutcomes : LlmRespond(outcome)

SpecClassify == InitClassify /\ [][NextClassify]_vars

\* the events query node working on one item
QueryInit ==
    /\ esPc = "start"
    /\ \/ esInput = [queryType |-> "events"] /\ esParams \in EsParamSets
       \/ esInput \in EsInputs /\ esParams \in {p \in EsParamSets : p.size = 50 /\ p.dateField = "capture_time"
                                                                     /\ p.resolutionStatus = "" /\ p.cameraDetailId = ""}
    /\ esEnv \in Environments
    /\ esRequest = NoRequest
    /\ esRequests = 0
    /\ esResult = NoResult

InitQuery == LedgerInit /\ ClassifyIdle /\ QueryInit /\ ShapeIdle

NextQuery ==
    \/ QueryStart
    \/ \E outcome \in EsOutcomes : QueryRespond(outcome)

SpecQuery == InitQuery /\ [][NextQuery]_vars

\* the result shaper working on one item
ShapeInit ==
    /\ shPc = "start"
    /\ shInput \in ShaperItems
    /\ \E k \in ShaperKeys, tz \in {Undef, Str("UTC")} :
          /\ shApiKeyParam = k.param
          /\ shEnv = [TIMEZONE |-> tz, OPENROUTER_API_KEY |-> k.env]
    /\ context = << >>
    /\ systemPrompt = [none |-> TRUE]
    /\ totalCount = Num(0)
    /\ shRequests = 0
    /\ shResult = NoResult

InitShape == LedgerInit /\ ClassifyIdle /\ QueryIdle /\ ShapeInit

NextShape ==
    \/ ShapeStart
    \/ \E outcome \in ShaperOutcomes : ShapeRespond(outcome)

SpecShape == InitShape /\ [][NextShape]_vars


(***************************************************************************)
(* Properties of the conversation ledger.                                  *)
(***************************************************************************)
\* the documents stored for a client, the successful store results of a client
RecordsOf(clientId) == MatchingIndexes(collection, clientId)
OutputOf(clientId) == SelectSeq(output, LAMBDA r : r.clientId = clientId)

\* a client identifier that is empty or consists of whitespace only
IsBlank(clientId) == \A i \in 1..Len(clientId) : CharAt(clientId, i) \in {" ", "\t", "\n"}

\* a client identifier upsertTurn has to refuse
IsMissingIdentifier(clientId) == IsBlank(clientId) \/ clientId \in {"null", "undefined"}

\* C1: under every interleaving of concurrent upsertTurn executions the
\* collection holds at most one conversation record per clientId.
C1_OneRecordPerClient ==
    \A clientId \in ClientIds : Cardinality(RecordsOf(clientId)) <= 1

\* C2: with upsertTurn calls made one after the other, a client never gets a
\* second record, and each call on a client that already has a record reports
\* "updated" with a messageCount exactly 1 above the one the previous call for
\* that client returned.
C2_SequentialCountsIncrease ==
    \A clientId \in ClientIds :
       /\ Cardinality(RecordsOf(clientId)) <= 1
       /\ \A i \in 2..Len(OutputOf(clientId)) :
             /\ OutputOf(clientId)[i].operation = "updated"
             /\ OutputOf(clientId)[i].messageCount = OutputOf(clientId)[i - 1].messageCount + 1

\* C2 witness: three calls for one client have returned
C2_Witness == \E clientId \in ClientIds : Len(OutputOf(clientId)) = 3

\* the turn a completed call stored, as getConversation reports it
StoredTurnOf(p) ==
    [chatId |-> chatMessage[p].chatId,
     userMessage |-> arg[p].turn.userMessage,
     assistantResponse |-> arg[p].turn.assistantResponse]
ReportedTurn(m) ==
    [chatId |-> m.chatId, userMessage |-> m.userMessage, assistantResponse |-> m.assistantResponse]

\* after n sequential calls for a client: one conversationId throughout, and
\* getConversation reports n turns whose chatIds follow the order of the calls
C3_StateOk ==
    \A clientId \in ClientIds :
       LET calls_ == OutputOf(clientId)
           got == GetConversationResult(collection, clientId, TRUE)
       IN  Len(calls_) > 0 =>
              /\ calls_[1].operation = "created"
              /\ \A i \in 1..Len(calls_) : calls_[i].conversationId = calls_[1].conversationId
              /\ got.kind = "got" /\ got.found
              /\ got.conversationId = calls_[1].conversationId
              /\ got.messageCount = Len(calls_)
              /\ Len(got.messages) = Len(calls_)
              /\ \A i \in 1..Len(calls_) : got.messages[i].chatId = calls_[i].chatId

\* a completing call adds exactly its own turn, last, and leaves the turns
\* reported before it as they were
C3_StepOk ==
    \A p \in Procs :
       (pc[p] = "write" /\ pc'[p] = "idle") =>
          LET before == GetConversationResult(collection, arg[p].clientId, TRUE)
              after == GetConversationResult(collection', arg[p].clientId, TRUE)
          IN  /\ after.messageCount = before.messageCount + 1
              /\ \A i \in 1..before.messageCount : after.messages[i] = before.messages[i]
              /\ ReportedTurn(after.messages[after.messageCount]) = StoredTurnOf(p)

\* C3: after n sequential successful upsertTurn calls for one clientId, every
\* call returned the same conversationId, earlier turns are stored unchanged,
\* and getConversation returns messageCount = n with the turns in call order.
C3_SequentialHistory == []C3_StateOk /\ [][C3_StepOk]_vars

\* C3 witness: three turns of one client stored and reported
C3_Witness ==
    \E clientId \in ClientIds :
       /\ AllIdle
       /\ Len(OutputOf(clientId)) = 3
       /\ GetConversationResult(collection, clientId, FALSE).messageCount = 3

\* C4: upsertTurn with an empty, whitespace-only, "null" or "undefined"
\* clientId fails with an error before any store operation; no record is
\* created for such an identifier and the invocation never reaches the store.
C4_MissingClientIdRejected ==
    /\ \A p \in Procs :
          (arg[p].op = "upsert" /\ IsMissingIdentifier(arg[p].clientId)) =>
             /\ ret[p].kind = "error"
             /\ pc[p] = "idle"
             /\ storeOps[p] = 0
    /\ \A i \in 1..Len(collection) : ~IsMissingIdentifier(collection[i].clientId)

\* C4 witness: a call with clientId "null" was refused while records exist
C4_Witness ==
    \E p \in Procs :
       /\ arg[p].op = "upsert"
       /\ arg[p].clientId = "null"
       /\ ret[p].kind = "error"
       /\ Len(collection) > 0

\* the step taken by one getConversation invocation
GetStep == calls'.get = calls.get + 1

Message == ExtractMessage(inputData)
Classifying == cpc # "start" /\ HasMessage(Message)

\* the item has been answered with the given queryType
ClassifiedAs(type) ==
    /\ cpc = "done"
    /\ result.kind = "params"
    /\ result.params.queryType = Str(type)

\* some keyword of the set occurs in the text, letter case ignored
ContainsKeyword(text, keywords) ==
    \E k \in keywords :
       \E i \in 1..Len(text) :
          /\ i + Len(k) - 1 <= Len(text)
          /\ ToLowerCase(SubSeq(text, i, i + Len(k) - 1)) = k

\* C6: a message containing a Variphi keyword (case-insensitive substring) is
\* classified variphi, without consulting the language model, whichever NVR
\* or general keywords it also contains.
C6_VariphiKeywordWins ==
    (Classifying /\ ContainsKeyword(Message.str, variphiKeywords)) =>
       /\ ClassifiedAs("variphi")
       /\ llmCalls = 0

\* C6 witness: a message with Variphi, NVR and general keywords came out variphi
C6_Witness ==
    /\ Message = Str("hi variphi nvr setup")
    /\ ClassifiedAs("variphi")

\* C7: the stages are tried in the order Variphi, NVR, general, language
\* model; the first that matches fixes the queryType and the model is called
\* only when no keyword stage matches.
C7_StageOrder ==
    Classifying =>
       LET v == isVariphiQuery(Message.str)
           n == isNvrQuery(Message.str)
           g == isGeneralQuery(Message.str)
       IN  /\ v => ClassifiedAs("variphi")
           /\ (~v /\ n) => ClassifiedAs("nvr")
           /\ (~v /\ ~n /\ g) => ClassifiedAs("general")
           /\ (v \/ n \/ g) <=> (llmCalls = 0 /\ result.kind = "params")
           /\ llmCalls = 1 => (~v /\ ~n /\ ~g)

\* C7 witness: a message matching the NVR and the general stage came out nvr
C7_Witness ==
    /\ Message = Str("hello nvr")
    /\ matched.general
    /\ ClassifiedAs("nvr")

\* the greetings of C8
GreetingForms == {k \o t : k \in {"hi", "thanks", "bye"}, t \in {"", "?", "!"}}

\* C8 (as claimed): "hi", "thanks", "bye", bare or followed by "?" or "!", are
\* classified general, and "history" is never classified general, whatever
\* the language model returns.
C8_Original ==
    (cpc = "done" /\ HasMessage(Message)) =>
       /\ Message.str \in GreetingForms => ClassifiedAs("general")
       /\ Message.str = "history" => ~ClassifiedAs("general")

\* C8 (amended): "hi", "thanks", "bye", bare or followed by "?" or "!", are
\* classified general; "history" does not match the general keyword stage and
\* comes out general only when the language model itself answers general.
C8_GreetingsGeneral ==
    Classifying =>
       /\ Message.str \in GreetingForms => ClassifiedAs("general")
       /\ Message.str = "history" =>
             /\ ~matched.general
             /\ ClassifiedAs("general") =>
                   /\ llmCalls = 1
                   /\ response.kind = "content"
                   /\ response.content = "{\"queryType\":\"general\"}"

\* C8 witness: "history" went to the model, which answered general
C8_Witness ==
    /\ Message = Str("history")
    /\ llmCalls = 1
    /\ ClassifiedAs("general")

\* whitespace or punctuation
IsBoundaryChar(c) == c \in {" ", "\t", "\n", ",", ".", "?", "!", ";", ":", "'", "-"}

\* the keyword occurs in the text as a whole token
WholeToken(text, k) ==
    \E i \in 1..(Len(text) - Len(k) + 1) :
       /\ SubSeq(text, i, i + Len(k) - 1) = k
       /\ (i = 1 \/ IsBoundaryChar(CharAt(text, i - 1)))
       /\ (i + Len(k) - 1 = Len(text) \/ IsBoundaryChar(CharAt(text, i + Len(k))))

\* the keyword is the whole text, opens it followed by a space, "?" or "!",
\* or closes it preceded by a space
EdgeToken(text, k) ==
    \/ text = k
    \/ /\ Len(text) > Len(k)
       /\ SubSeq(text, 1, Len(k)) = k
       /\ CharAt(text, Len(k) + 1) \in {" ", "?", "!"}
    \/ /\ Len(text) > Len(k)
       /\ SubSeq(text, Len(text) - Len(k) + 1, Len(text)) = k
       /\ CharAt(text, Len(text) - Len(k)) = " "

\* C9 (as claimed): for a message shorter than 15 characters the general
\* match holds if and only if a general keyword occurs as a whole token.
C9_Original ==
    (Classifying /\ Len(Message.str) < 15) =>
       (matched.general <=> \E k \in generalKeywords : WholeToken(MessageLower(Message.str), k))

\* C9 (amended): for a message whose trimmed lower-case text is shorter than
\* 15 characters the general match holds only if a general keyword occurs as
\* a whole token, and it holds exactly when a keyword is the whole text,
\* opens it followed by a space, "?" or "!", or closes it preceded by a space.
C9_ShortGeneralMatch ==
    (Classifying /\ Len(MessageLower(Message.str)) < 15) =>
       /\ matched.general => \E k \in generalKeywords : WholeToken(MessageLower(Message.str), k)
       /\ matched.general <=> \E k \in generalKeywords : EdgeToken(MessageLower(Message.str), k)

\* C9 witness: a short message closing with a greeting matched
C9_Witness ==
    /\ Message = Str("oh hi")
    /\ matched.general
    /\ ClassifiedAs("general")

\* model contents that are not JSON
UnparsableContents == {"Sorry, I cannot answer that.", "{\"queryType\":"}

\* an events result carrying the default filters
IsDefaultEvents(params) ==
    /\ params.queryType = Str("events")
    /\ params.dateRangeType = Str("none")
    /\ params.dateField = Str("capture_time")
    /\ params.status = Str("")
    /\ params.resolutionStatus = Str("")
    /\ params.fromDate = Str("")
    /\ params.toDate = Str("")
    /\ params.size = Num(50)
    /\ params.sortField = Str("capture_time")
    /\ params.sortOrder = Str("desc")

\* the completion request failed or its content is not JSON
ModelFailed ==
    /\ llmCalls = 1
    /\ \/ response.kind \in {"rejected", "nochoices"}
       \/ response.kind = "content" /\ response.content \in UnparsableContents

QueryTypes == {"general", "nvr", "variphi", "events"}

\* C11: for every input message and every language-model output, the
\* queryType emitted by classification is one of general, nvr, variphi, events.
C11_QueryTypeClosed ==
    (cpc = "done" /\ result.kind = "params") =>
       result.params.queryType \in {Str(t) : t \in QueryTypes}

\* model contents from which no JSON is obtained, with or without extraction
NonJsonContents ==
    {"Sorry, I cannot answer that.", "{\"queryType\":",
     "{\"queryType\":\"nvr\"} or {\"queryType\":\"events\"}"}

\* C12: when the language-model output cannot be parsed as JSON,
\* classification yields events with dateRangeType none, empty status and
\* resolutionStatus, size 50, sortField capture_time and sortOrder desc.
C12_UnparsableYieldsDefaults ==
    (cpc = "done" /\ llmCalls = 1 /\ response.kind = "content"
       /\ response.content \in NonJsonContents) =>
       /\ result.kind = "params"
       /\ result.params.queryType = Str("events")
       /\ result.params.dateRangeType = Str("none")
       /\ result.params.status = Str("")
       /\ result.params.resolutionStatus = Str("")
       /\ result.params.size = Num(50)
       /\ result.params.sortField = Str("capture_time")
       /\ result.params.sortOrder = Str("desc")

\* C12 witness: the body asked for 20 results, the model's content held two
\* objects joined by prose, and the item came out as events of size 50
C12_Witness ==
    /\ cpc = "done"
    /\ inputData.body.size = Num(20)
    /\ response.kind = "content"
    /\ response.content = "{\"queryType\":\"nvr\"} or {\"queryType\":\"events\"}"
    /\ result.kind = "params"
    /\ result.params.queryType = Str("events")
    /\ result.params.size = Num(50)

\* the body's field when it is given, the default otherwise
BodyOr(field, default) ==
    IF inputData.body[field] \in {Undef, Null, Str(""), Num(0)}
    THEN default
    ELSE inputData.body[field]

\* the item has no natural-language message
NoNaturalMessage ==
    \/ IsUndef(Message)
    \/ Message = Str("")
    \/ ~IsStr(Message)

\* C13: when the message field is absent, empty or not a string, no keyword
\* stage and no language-model call is performed, and the result is an events
\* filter set built only from the body's explicit fields and the defaults.
C13_StructuredPath ==
    (cpc = "done" /\ NoNaturalMessage) =>
       /\ llmCalls = 0
       /\ matched = NoFlags
       /\ response.kind = "none"
       /\ result.kind = "params"
       /\ result.params.queryType = Str("events")
       /\ result.params.host = BodyOr("host", defaultHost)
       /\ result.params.port = BodyOr("port", defaultPort)
       /\ result.params.index = BodyOr("index", defaultIndex)
       /\ result.params.username = BodyOr("username", defaultUsername)
       /\ result.params.password = BodyOr("password", defaultPassword)
       /\ result.params.status = BodyOr("status", Str(""))
       /\ result.params.resolutionStatus = BodyOr("resolution_status", Str(""))
       /\ result.params.adminClientId = BodyOr("admin_client_id", Str(""))
       /\ result.params.cameraDetailId = BodyOr("camera_detail_id", Str(""))
       /\ result.params.size = BodyOr("size", Num(50))
       /\ result.params.from = BodyOr("from", Num(0))
       /\ result.params.sortField = BodyOr("sortField", Str("capture_time"))
       /\ result.params.sortOrder = BodyOr("sortOrder", Str("desc"))
       /\ IsUndef(inputData.body.query) => result.params.customQuery = Str("")
       /\ IsUndef(inputData.body.dateRange) =>
             /\ result.params.dateRangeType = Str("none")
             /\ result.params.dateField = Str("capture_time")
             /\ result.params.fromDate = Str("")
             /\ result.params.toDate = Str("")
       /\ inputData.body.dateRange = Obj([today |-> [bool |-> TRUE]]) =>
             result.params.dateRangeType = Str("today")

\* C13 witness: a body with an empty message and explicit fields came out as
\* an events filter set carrying them, without an API key
C13_Witness ==
    /\ cpc = "done"
    /\ Message = Str("")
    /\ apiKey = ""
    /\ inputData.body.status = Str("LABELLED")
    /\ llmCalls = 0
    /\ result.kind = "params"
    /\ result.params.status = Str("LABELLED")
    /\ result.params.size = Num(20)
    /\ result.params.dateRangeType = Str("today")

\* C14: in every events filter set produced by extraction, size and from are
\* non-negative integers.
C14_PagingNumbers ==
    (cpc = "done" /\ result.kind = "params" /\ "size" \in DOMAIN result.params) =>
       /\ IsNum(result.params.size) /\ result.params.size.num >= 0
       /\ IsNum(result.params.from) /\ result.params.from.num >= 0


(***************************************************************************)
(* Properties of the events query node.                                    *)
(***************************************************************************)
\* the item is not passed through and its query has been built or refused
Built == esPc # "start" /\ esPc # "idle" /\ esInput.queryType # "nvr"

\* a query was built from the filters, without a custom query
BuiltFromFilters == Built /\ esParams.customQuery = ""

\* the filter clauses of the built query
Filters == esRequest.body.query.bool.filter

\* the positions of the clauses of one kind, and of the term clauses on a field
ClausesOf(kind) == {i \in 1..Len(Filters) : kind \in DOMAIN Filters[i]}
TermsOn(field) == {i \in ClausesOf("term") : field \in DOMAIN Filters[i].term}

\* the timezone configured for the process
ConfiguredTimezone ==
    IF esEnv.TIMEZONE = Str("UTC") THEN "UTC" ELSE "Asia/Kolkata"

\* C15: when a non-empty override query is supplied, the built query is the
\* parsed override verbatim, whatever status, resolutionStatus, date range,
\* client ids and cameraDetailId are; when the override does not parse, query
\* building fails with an error and no backend request is issued.
C15_OverrideVerbatim ==
    (Built /\ esParams.customQuery # "") =>
       /\ esParams.customQuery = "{\"match_all\":{}}" =>
             /\ esRequests = 1
             /\ esRequest.body.query = [obj |-> [match_all |-> [obj |-> << >>]]]
             /\ esPc = "done" /\ esResult.kind = "result" =>
                   esResult.json.query.query = [obj |-> [match_all |-> [obj |-> << >>]]]
       /\ esParams.customQuery = "{\"match_all\":" =>
             /\ esPc = "done"
             /\ esRequests = 0
             /\ esRequest = NoRequest
             /\ esResult = [kind |-> "error", message |-> "Invalid custom query JSON"]

\* C15 witness: an override came back verbatim although status, date range
\* and client id were all set
C15_Witness ==
    /\ esPc = "done"
    /\ esParams.customQuery = "{\"match_all\":{}}"
    /\ esParams.status = "LABELLED"
    /\ esParams.dateRangeType = "today"
    /\ esParams.adminClientId = "abc"
    /\ esResult.kind = "result"
    /\ esResult.json.query.query = [obj |-> [match_all |-> [obj |-> << >>]]]

\* the bounds of the three relative date range kinds
RelativeBounds(kind) ==
    CASE kind = "today" -> [gte |-> "now/d", lt |-> "now/d+1d"]
      [] kind = "yesterday" -> [gte |-> "now-1d/d", lt |-> "now/d"]
      [] kind = "last7days" -> [gte |-> "now-7d/d", lt |-> "now/d+1d"]

C17_CustomDateRange ==
    (BuiltFromFilters /\ esParams.dateRangeType = "custom") =>
       IF esParams.fromDate = "" /\ esParams.toDate = ""
       THEN ClausesOf("range") = {}
       ELSE /\ Cardinality(ClausesOf("range")) = 1
            /\ \A i \in ClausesOf("range") :
                  /\ DOMAIN Filters[i].range = {esParams.dateField}
                  /\ LET bounds == Filters[i].range[esParams.dateField]
                     IN  /\ "gte" \in DOMAIN bounds <=> esParams.fromDate # ""
                         /\ "lte" \in DOMAIN bounds <=> esParams.toDate # ""
                         /\ "gte" \in DOMAIN bounds => bounds.gte = esParams.fromDate
                         /\ "lte" \in DOMAIN bounds => bounds.lte = esParams.toDate
                         /\ DOMAIN bounds \subseteq {"gte", "lte", "time_zone"}

\* C17 witness: a custom range with an upper bound only was sent
C17_Witness ==
    /\ BuiltFromFilters
    /\ esRequests = 1
    /\ esParams.dateRangeType = "custom"
    /\ esParams.fromDate = ""
    /\ esParams.toDate = "2024-01-31T23:59:59Z"
    /\ ClausesOf("range") = {1}
    /\ DOMAIN Filters[1].range[esParams.dateField] = {"lte", "time_zone"}

\* the answers of the model that the events branch of extraction may read
ParsedQueries ==
    {FallbackQuery, Obj(<< >>),
     Obj([queryType |-> Str("events"), dateRangeType |-> Str("today"),
          status |-> Str("LABELLED"), size |-> Num(20)]),
     Obj([dateRangeType |-> Str("yesterday"), size |-> Str("abc")])}

\* the status a source supplies, the empty string when it supplies none
SuppliedStatus(v) == IF IsStr(v) THEN v ELSE Str("")

AdminAlternatives ==
    << [term |-> ("pre_event_capture.camera_detail.admin_client_id.keyword" :> esParams.adminClientId)],
       [term |-> ("image.dataset.client_id.keyword" :> esParams.adminClientId)] >>
ViewerAlternatives ==
    << [term |-> ("pre_event_capture.camera_detail.viewer_client_id.keyword" :> esParams.viewerClientId)],
       [term |-> ("image.dataset.client_id.keyword" :> esParams.viewerClientId)] >>

BodyUnder(env) == EsBody(esParams, env)

NoDateClause ==
    \/ esParams.customQuery # ""
    \/ esParams.dateRangeType = "none"
    \/ esParams.dateRangeType = "custom" /\ esParams.fromDate = "" /\ esParams.toDate = ""

\* the timezone an environment configures
TimezoneUnder(env) == IF env.TIMEZONE = Str("UTC") THEN "UTC" ELSE "Asia/Kolkata"

\* a request body with the time_zone tag of its date clause removed
WithoutTimezone(body) ==
    LET clause == body.query.bool.filter[1]
        field == CHOOSE f \in DOMAIN clause.range : TRUE
        bounds == clause.range[field]
        untagged == [k \in DOMAIN bounds \ {"time_zone"} |-> bounds[k]]
    IN  [body EXCEPT !.query.bool.filter[1] = [range |-> (field :> untagged)]]

NoFilterConfigured ==
    /\ esParams.status = ""
    /\ esParams.resolutionStatus = ""
    /\ esParams.adminClientId = ""
    /\ esParams.viewerClientId = ""
    /\ esParams.cameraDetailId = ""
    /\ esParams.dateRangeType = "none"
    /\ esParams.customQuery = ""

\* C21: when no filter is configured (status, resolution status, client ids
\* and camera id empty, date range none, no custom query), the generated
\* request body is {query: match_all, size, from, sort}.
C21_NoFilterMatchAll ==
    (Built /\ NoFilterConfigured) =>
       /\ esRequests = 1
       /\ esRequest.body = [query |-> [match_all |-> << >>],
                            size |-> esParams.size,
                            from |-> esParams.from,
                            sort |-> << (esParams.sortField :> [order |-> esParams.sortOrder]) >>]

\* C25: for every item whose classified intent is general, nvr or variphi,
\* the events query node builds no query and issues no search request.
C25_NonEventsNoRequest ==
    (esPc \in {"request", "done"} /\ esInput.queryType \in {"general", "nvr", "variphi"}) =>
       /\ esRequests = 0
       /\ esRequest = NoRequest


(***************************************************************************)
(* Further properties of the conversation ledger and the classifier.       *)
(***************************************************************************)
\* the chatIds getConversation reports for a client on the current store
ReportedChatIds(clientId) ==
    LET got == GetConversationResult(collection, clientId, FALSE)
    IN  IF got.kind = "got" THEN {got.messages[i].chatId : i \in 1..Len(got.messages)} ELSE {}

\* C26: after any interleaving of concurrent successful upsertTurn calls for
\* one clientId, a subsequent getConversation returns all their turns.
C26_NoTurnLost ==
    \A i \in 1..Len(output) : output[i].chatId \in ReportedChatIds(output[i].clientId)

\* the step in which the write of slot p resolves
WriteStep(p) == pc[p] = "write" /\ pc'[p] = "idle"

\* C27: the messageCount and operation returned by an upsertTurn describe the
\* store right after that call's write: messageCount is the length of the
\* client's stored message list and operation is created exactly when the
\* call inserted the record.
C27_ResultDescribesStore ==
    [][\A p \in Procs :
          WriteStep(p) =>
             /\ ret'[p].messageCount = Len(FindOne(collection', arg[p].clientId).messages)
             /\ ret'[p].operation = "created" <=> Len(collection') = Len(collection) + 1]_vars

\* the queryType each content of the model stands for
ModelQueryType(content) ==
    CASE content \in {"{\"queryType\":\"general\"}"} -> Str("general")
      [] content \in {"{\"queryType\":\"nvr\"}", "Here it is:\n{\"queryType\":\"nvr\"}\nDone."} -> Str("nvr")
      [] content \in {"{\"queryType\":\"variphi\"}"} -> Str("variphi")
      [] content \in {" {\"queryType\":\"weather\"} "} -> Str("weather")
      [] OTHER -> Str("events")

\* C28: whenever the language-model stage is reached, none of the Variphi,
\* NVR and general keyword predicates holds for the message, so the keyword
\* override after the model never changes the model's queryType.
C28_OverrideNeverFires ==
    (HasMessage(Message) /\ llmCalls = 1) =>
       /\ ~isVariphiQuery(Message.str)
       /\ ~isNvrQuery(Message.str)
       /\ ~isGeneralQuery(Message.str)
       /\ (cpc = "done" /\ result.kind = "params") =>
             result.params.queryType = ModelQueryType(response.content)

\* C28 witness: the model was asked about "history", answered nvr, and nvr
\* came out
C28_Witness ==
    /\ cpc = "done"
    /\ Message = Str("history")
    /\ llmCalls = 1
    /\ response.kind = "content"
    /\ response.content = "Here it is:\n{\"queryType\":\"nvr\"}\nDone."
    /\ ClassifiedAs("nvr")

\* C29: every clientId for which upsertTurn fails as missing (empty,
\* whitespace-only, "null", "undefined") also makes getConversation fail
\* instead of performing a lookup.
C29_SameRejections ==
    (getArg.op = "get" /\ IsMissingIdentifier(getArg.clientId)) =>
       /\ getRet.kind = "error"
       /\ getOps = 0


(***************************************************************************)
(* Properties of the result shaper.                                        *)
(***************************************************************************)
\* the context of an events item has been built
ShapedEvents == shPc \in {"llm", "done"} /\ shRequests = 1 /\ IsUndef(shInput.queryType)

\* the hits the item carries and the total match count the backend gave
ReturnedHits ==
    IF IsArr(shInput.hits) THEN shInput.hits.arr ELSE shInput.hits.obj.hits.arr
BackendTotal ==
    IF ~IsArr(shInput.hits) THEN shInput.hits.obj.total.obj.value.num
    ELSE IF IsNum(shInput.count) THEN shInput.count.num
    ELSE IF IsNum(shInput.total) THEN shInput.total.num
    ELSE shInput.total.obj.value.num

\* the pieces of one kind in the context block
Pieces(kind) == {i \in 1..Len(context) : context[i].kind = kind}

\* the questions that ask for a count, and those that do not
CountingQuestions ==
    {Str("how many events today?"), Str("Total events"), Str("what is the event count"),
     Str("number of alerts")}
PlainQuestions ==
    {Undef, Str("show me the latest events"), Str("show discounts"), Str("totally new events")}

C23_CountingQuestion ==
    (ShapedEvents /\ shInput.originalMessage \in CountingQuestions) =>
       /\ Pieces("event") = {}
       /\ Pieces("showing") = {} /\ Pieces("more") = {} /\ Pieces("data") = {}
       /\ context[1] = [kind |-> "total", text |-> "Total results: ", total |-> totalCount]
       /\ totalCount # Num(0) =>
             /\ Len(context) = 3
             /\ context[2].kind = "count" /\ context[2].total = totalCount
             /\ context[3].kind = "text"

\* C23 witness: "Total events" over 17 hits out of 200 gave the total only
C23_Witness ==
    /\ ShapedEvents
    /\ shInput.originalMessage = Str("Total events")
    /\ Len(ReturnedHits) = MaxHits
    /\ totalCount = Num(200)
    /\ Len(context) = 3
    /\ context[2].kind = "count"

\* the number of record summaries and the trailing notes of the context
Shown == Cardinality(Pieces("event"))
CapOk == Shown = (IF Len(ReturnedHits) < 15 THEN Len(ReturnedHits) ELSE 15) /\ Shown <= 15
NoteOk ==
    /\ Cardinality(Pieces("more")) <= 1
    /\ Pieces("more") # {} <=> totalCount.num > Shown
    /\ \A i \in Pieces("more") : i = Len(context) /\ context[i].notShown = totalCount.num - Shown

\* C24 (as claimed): for a non-counting events question, the context block
\* contains min(number of returned hits, 15) record summaries, never more
\* than 15, and a trailing note giving total minus the number shown is
\* present exactly when the total exceeds the number shown.
C24_Original ==
    (ShapedEvents /\ shInput.originalMessage \in PlainQuestions) => (CapOk /\ NoteOk)

\* C24 (amended): for a non-counting events question, the context block
\* contains min(number of returned hits, 15) record summaries, never more
\* than 15; when at least one hit is returned, a trailing note giving total
\* minus the number shown is present exactly when the total exceeds the
\* number shown; when no hit is returned there is no trailing note, whatever
\* the total.
C24_CappedListing ==
    (ShapedEvents /\ shInput.originalMessage \in PlainQuestions) =>
       /\ CapOk
       /\ Len(ReturnedHits) > 0 => NoteOk
       /\ Len(ReturnedHits) = 0 => Pieces("more") = {}

\* C24 witness: MaxHits hits out of 200 were listed as 15 summaries and a note
\* about the 185 others
C24_Witness ==
    /\ ShapedEvents
    /\ shInput.originalMessage = Str("show discounts")
    /\ Len(ReturnedHits) = MaxHits
    /\ totalCount = Num(200)
    /\ Shown = 15
    /\ context[Len(context)] = [kind |-> "more", notShown |-> 185]

\* the item is an output envelope of the events query node
IsEnvelope == IsArr(shInput.hits) /\ ~IsUndef(shInput.total)

\* C30: when the events query node's output envelope is fed to the result
\* shaper, the total the shaper reports and uses for its "showing N of total"
\* line and trailing note equals the backend's total match count.
C30_EnvelopeTotal ==
    (ShapedEvents /\ IsEnvelope) =>
       /\ totalCount = Num(BackendTotal)
       /\ \A i \in Pieces("showing") : context[i].of = Num(BackendTotal)
       /\ \A i \in Pieces("more") : context[i].notShown = BackendTotal - Shown

====
